---- MODULE Spec2Model ----
(***************************************************************************)
(* singleton-registry: the RegistryApi trait (src/src/registry_trait.rs)   *)
(* over the statics that define_registry! creates (src/src/macros.rs).     *)
(*                                                                         *)
(* A registry is a pair of statics: STORAGE, a Mutex<HashMap<TypeId,       *)
(* Arc<dyn Any>>>, and TRACE, a Mutex<Option<Arc<dyn Fn(&RegistryEvent)>>>.*)
(* Threads call register / register_arc / get / get_cloned / contains /    *)
(* clear / set_trace_callback / clear_trace_callback; each call is split   *)
(* at the points where it takes or releases one of the two locks.          *)
(***************************************************************************)
EXTENDS Integers, FiniteSets, Sequences, TLC

\* ------------------------------------------------------------------ bounds
MaxAllocs == 2      \* Arc allocations alive at a time

\* ------------------------------------------------------------------ inputs
Threads == {"t1", "t2"}
Regs == {"A", "B"}              \* two define_registry! instances
Types == {"u32", "Bomb"}        \* Bomb: a unit struct whose Drop impl panics
Callbacks == {"cb"}             \* closures passed to set_trace_callback
\* further closures: a second observer, and one that panics on every event
MoreCallbacks == {"cb2", "boom"}
\* closures that call a registry: toB calls registry B, toOwn calls the
\* registry it is installed on
CallingCallbacks == {"toB", "toOwn"}
\* the registry that the closure cb, installed on registry r, calls ("-": none)
CallsInto(cb, r) == IF cb = "toB" THEN "B" ELSE IF cb = "toOwn" THEN r ELSE "-"
\* whether the closure panics when it is called
CallbackPanics(cb) == cb = "boom"
Ids == 1..MaxAllocs             \* identities of Arc allocations
NoThread == "-"
\* Option::None of an Option<Arc<..>>
NoArc == 0

\* the value a caller registers in a new allocation i: callers register
\* distinct u32 values; Bomb is a unit struct
ValsOf(T, i) == IF T = "u32" THEN {i} ELSE {0}
\* a type identity that does not tell the types apart
OneTypeId(T) == 1
\* std::any::TypeId::of::<T>(): the map key
TypeIdOf(T) == IF T = "u32" THEN 1 ELSE 2
\* std::any::type_name::<T>(): the name carried by events and errors
TypeName(T) == IF T = "u32" THEN "u32" ELSE "crate::Bomb"
\* whether <T as Drop>::drop panics
DropPanics(T) == T = "Bomb"

\* a registry whose storage() returns the static of registry "A"
SharedStorage(r) == "A"
\* Self::storage(): the STORAGE static of the registry's own module
StorageOf(r) == r

\* a registry whose trace() returns the static of registry "A"
SharedTrace(r) == "A"
\* Self::trace(): the TRACE static of the registry's own module
TraceOf(r) == r

VARIABLES
    store,      \* [Regs -> set of <<TypeId, Id>>]: STORAGE's HashMap entries
    poisoned,   \* [Regs -> BOOLEAN]: STORAGE's mutex is poisoned
    storeLock,  \* [Regs -> thread holding STORAGE's mutex, or NoThread]
    trace,      \* [Regs -> callback in TRACE, or "None"]
    traceLock,  \* [Regs -> thread holding TRACE's mutex, or NoThread]
    tracePoisoned, \* [Regs -> BOOLEAN]: TRACE's mutex is poisoned
    asked,      \* [Regs -> what the last set_ / clear_trace_callback asked for]
    tyOf,       \* [Ids -> concrete type of the allocation, "-" if none]
    valOf,      \* [Ids -> value of the allocation, 0 if none]
    rc,         \* [Ids -> Arc strong count; 0: not allocated]
    held,       \* the instances the callers keep a handle to
    th,         \* [Threads -> the call in progress and its locals]
    outer,      \* [Threads -> the call whose callback is making the call in th]
    last,       \* history: [Regs -> [Types -> the entry the returned calls leave]]
    expect,     \* history: [Threads -> last of the looked-up type at the lookup]
    solo,       \* history: [Threads -> the call has overlapped no other writer]
    log         \* history: [Threads -> events the callback got from the call]

hist == <<last, expect, solo, log>>
vars == <<store, poisoned, storeLock, trace, traceLock, tracePoisoned, asked,
          tyOf, valOf, rc, held, th, outer, last, expect, solo, log>>

\* ------------------------------------------------------------ HashMap ops
\* HashMap::contains_key
ContainsKey(m, k) == \E e \in m : e[1] = k

\* a lookup that finds no entry
LookupMiss(m, k) == NoArc
\* HashMap::get(..).cloned(): the entry's Arc, or NoArc for None
Lookup(m, k) == IF ContainsKey(m, k) THEN (CHOOSE e \in m : e[1] = k)[2] ELSE NoArc

\* HashMap::insert without replacing the entry of an equal key
InsertKeepOld(m, k, id) == m \cup {<<k, id>>}

\* an insert that leaves the entry of an equal key in place (entry().or_insert)
InsertIfAbsent(m, k, id) == IF ContainsKey(m, k) THEN m ELSE m \cup {<<k, id>>}

\* HashMap::insert: the entry of an equal key is replaced
Insert(m, k, id) == {e \in m : e[1] # k} \cup {<<k, id>>}

\* ------------------------------------------------------------ results
NoRes == [kind |-> "-", h |-> NoArc, name |-> "-", b |-> FALSE, v |-> 0]
Unit == [NoRes EXCEPT !.kind = "Unit"]
OkArc(id) == [NoRes EXCEPT !.kind = "Ok", !.h = id]
OkVal(x) == [NoRes EXCEPT !.kind = "OkVal", !.v = x]
OkBool(x) == [NoRes EXCEPT !.kind = "OkBool", !.b = x]
Panic == [NoRes EXCEPT !.kind = "Panic"]
\* a panic while unwinding: the process aborts
Abort == [NoRes EXCEPT !.kind = "Abort"]
\* RegistryError
RegistryLock == [NoRes EXCEPT !.kind = "RegistryLock"]
TypeMismatch(T) == [NoRes EXCEPT !.kind = "TypeMismatch", !.name = TypeName(T)]
TypeNotFound(T) == [NoRes EXCEPT !.kind = "TypeNotFound", !.name = TypeName(T)]

\* ------------------------------------------------------------ thread state
\* pc: where the call stands; op, reg, ty: the call; arc: the Arc the call
\* carries; drops: Arcs removed from the map and not yet dropped; res: the result
Idle == [pc |-> "idle", op |-> "-", reg |-> "-", ty |-> "-", arc |-> NoArc,
         drops |-> {}, res |-> NoRes]

Init ==
    /\ store = [r \in Regs |-> {}]
    /\ poisoned = [r \in Regs |-> FALSE]
    /\ storeLock = [r \in Regs |-> NoThread]
    /\ trace = [r \in Regs |-> "None"]
    /\ traceLock = [r \in Regs |-> NoThread]
    /\ tracePoisoned = [r \in Regs |-> FALSE]
    /\ asked = [r \in Regs |-> "None"]
    /\ tyOf = [i \in Ids |-> "-"]
    /\ valOf = [i \in Ids |-> 0]
    /\ rc = [i \in Ids |-> 0]
    /\ held = {}
    /\ th = [t \in Threads |-> Idle]
    /\ outer = [t \in Threads |-> Idle]
    /\ last = [r \in Regs |-> [T \in Types |-> NoArc]]
    /\ expect = [t \in Threads |-> NoArc]
    /\ solo = [t \in Threads |-> FALSE]
    /\ log = [t \in Threads |-> <<>>]

\* ------------------------------------------------------------ Arc counting
\* the instances of D whose last handle a drop of D releases: their destructor runs
Dying(D) == {i \in D : rc[i] = 1}
\* a drop that is put off until no other handle to the instances of D is left
DropWhenSole(D) ==
    /\ \A i \in D : rc[i] = 1
    /\ rc' = [i \in Ids |-> IF i \in D THEN 0 ELSE rc[i]]
    /\ tyOf' = [i \in Ids |-> IF i \in D THEN "-" ELSE tyOf[i]]
    /\ valOf' = [i \in Ids |-> IF i \in D THEN 0 ELSE valOf[i]]
\* Arc::drop of one handle to each instance of D; a count of 0 frees the allocation
DropArcs(D) ==
    /\ rc' = [i \in Ids |-> IF i \in D THEN rc[i] - 1 ELSE rc[i]]
    /\ tyOf' = [i \in Ids |-> IF i \in Dying(D) THEN "-" ELSE tyOf[i]]
    /\ valOf' = [i \in Ids |-> IF i \in Dying(D) THEN 0 ELSE valOf[i]]
\* Arc::new: the allocator hands out an allocation that is not in use
Free == {i \in Ids : rc[i] = 0}
NewId == CHOOSE i \in Free : \A j \in Free : i <= j
\* a copy of the handle made without counting it
CopyArc(id) == rc
\* Arc::clone of a handle to id (strong count + 1); nothing for None
CloneArc(id) == [i \in Ids |-> IF i = id /\ id # NoArc THEN rc[i] + 1 ELSE rc[i]]

\* ------------------------------------------------------------ trace hub
\* a set_trace_callback that keeps a callback that is already installed
KeepFirst(old, cb) == IF old = "None" THEN cb ELSE old
\* *guard = Some(Arc::new(callback)): the new content of TRACE
Installed(old, cb) == cb
\* a clear_trace_callback that leaves TRACE as it is
KeepInstalled(old) == old
\* *guard = None: the new content of TRACE
Removed(old) == "None"

\* set_trace_callback: lock TRACE (a poisoned lock is recovered),
\* *guard = Some(Arc::new(callback))
SetTraceCallback(t, r, cb) ==
    /\ th[t].pc = "idle"
    /\ traceLock[TraceOf(r)] = NoThread
    /\ trace' = [trace EXCEPT ![TraceOf(r)] = Installed(trace[TraceOf(r)], cb)]
    /\ asked' = [asked EXCEPT ![r] = cb]
    /\ UNCHANGED <<store, poisoned, storeLock, traceLock, tyOf, valOf, rc,
                   held, th,
                   tracePoisoned, outer>>

\* clear_trace_callback: lock TRACE (a poisoned lock is recovered), *guard = None
ClearTraceCallback(t, r) ==
    /\ th[t].pc = "idle"
    /\ traceLock[TraceOf(r)] = NoThread
    /\ trace' = [trace EXCEPT ![TraceOf(r)] = Removed(trace[TraceOf(r)])]
    /\ asked' = [asked EXCEPT ![r] = "None"]
    /\ UNCHANGED <<store, poisoned, storeLock, traceLock, tyOf, valOf, rc,
                   held, th,
                   tracePoisoned, outer>>

\* an emit_event that finds no callback behind a poisoned TRACE lock
PoisonedIsNone(r) == IF tracePoisoned[TraceOf(r)] THEN "None" ELSE trace[TraceOf(r)]
\* self.trace().lock().unwrap_or_else(|p| p.into_inner()): what emit_event
\* finds behind the TRACE lock, poisoned or not
TraceGuard(r) ==
    trace[TraceOf(r)]

\* an emit_event that lets go of the TRACE guard before it invokes the callback
Unguarded(t, r) == traceLock
\* emit_event: lock TRACE; with no callback the guard is dropped at once and
\* the call goes on at `after`; with a callback the guard stays held while
\* the callback runs
EmitPc(r, after) == IF TraceGuard(r) = "None" THEN after ELSE "callback"
EmitGuard(t, r) ==
    IF TraceGuard(r) = "None" THEN traceLock ELSE [traceLock EXCEPT ![TraceOf(r)] = t]

\* the step after emit_event returns, per operation
AfterEmit(op) ==
    CASE op \in {"register", "register_arc"} -> "reg_lock"
      [] op = "clear" -> "clr_lock"
      [] op = "get_cloned" -> "cloned"
      [] op = "legacy_get" -> "legacy_unlock"
      [] OTHER -> "ret"

\* get / contains: self.emit_event(..) after the lookup
EmitEvent(t) ==
    /\ th[t].pc = "emit"
    /\ traceLock[TraceOf(th[t].reg)] = NoThread
    /\ traceLock' = EmitGuard(t, th[t].reg)
    /\ th' = [th EXCEPT ![t].pc = EmitPc(th[t].reg, AfterEmit(th[t].op))]
    /\ UNCHANGED <<store, poisoned, storeLock, trace, tyOf, valOf, rc,
                   held,
                   asked, tracePoisoned, outer>>

\* the RegistryEvent that the call c passes to emit_event, and the callback
\* that gets it
EventOf(c, cb) ==
    [kind |-> CASE c.op \in {"register", "register_arc"} -> "Register"
                [] c.op \in {"get", "get_cloned"} -> "Get"
                [] c.op = "contains" -> "Contains"
                [] OTHER -> "Clear",
     type_name |-> IF c.op = "clear" THEN "-" ELSE TypeName(c.ty),
     found |-> CASE c.op \in {"get", "get_cloned"} -> c.res.kind = "Ok"
                 [] c.op = "contains" -> c.res.b
                 [] OTHER -> FALSE,
     to |-> cb]

\* the Arcs in the locals of the call c while emit_event runs: register_arc's
\* value, get's result
LocalArcs(c) ==
    IF c.op \in {"register", "register_arc"} THEN {c.arc}
    ELSE IF c.res.kind = "Ok" THEN {c.res.h}
    ELSE {}

\* the callback panics: the unwinding drops the TRACE guard, which poisons
\* TRACE, then the locals of the operation and any guard it holds; the panic
\* reaches the caller. A destructor that panics during the unwinding aborts
\* the process
CallbackPanic(t) ==
    LET r == TraceOf(th[t].reg)
        D == LocalArcs(th[t])
        abort == \E i \in Dying(D) : DropPanics(tyOf[i])
    IN  /\ th[t].pc = "callback"
        /\ CallbackPanics(trace[r])
        /\ traceLock' = [traceLock EXCEPT ![r] = NoThread]
        /\ tracePoisoned' = [tracePoisoned EXCEPT ![r] = TRUE]
        /\ poisoned' = [q \in Regs |-> poisoned[q] \/ storeLock[StorageOf(q)] = t]
        /\ storeLock' = [q \in Regs |-> IF storeLock[q] = t THEN NoThread
                                                            ELSE storeLock[q]]
        /\ IF abort
             THEN /\ th' = [u \in Threads |->
                              [th[u] EXCEPT !.pc = "aborted",
                                            !.res = IF u = t THEN Abort ELSE @]]
                  /\ UNCHANGED <<rc, tyOf, valOf>>
             ELSE /\ DropArcs(D)
                  /\ th' = [th EXCEPT ![t].pc = "ret", ![t].res = Panic]
        /\ UNCHANGED <<store, trace, asked, held, outer>>

\* the callback returns; emit_event drops the TRACE guard
CallbackReturn(t) ==
    /\ \/ /\ th[t].pc = "callback"
          /\ ~CallbackPanics(trace[TraceOf(th[t].reg)])
          /\ \/ CallsInto(trace[TraceOf(th[t].reg)], th[t].reg) = "-"
             \/ outer[t] # Idle
       \/ th[t].pc = "called"
    /\ traceLock' = [traceLock EXCEPT ![TraceOf(th[t].reg)] = NoThread]
    /\ th' = [th EXCEPT ![t].pc = AfterEmit(th[t].op)]
    /\ UNCHANGED <<store, poisoned, storeLock, trace, tyOf, valOf, rc,
                   held,
                   asked, tracePoisoned, outer>>

\* the callback, a closure that calls a registry, comes to its call: the call
\* that invoked it is set aside, with the TRACE guard it holds, while the
\* thread runs the call of the callback. A callback invoked by a call that a
\* callback made returns without a call of its own
CallbackCall(t) ==
    /\ th[t].pc = "callback"
    /\ outer[t] = Idle
    /\ CallsInto(trace[TraceOf(th[t].reg)], th[t].reg) # "-"
    /\ outer' = [outer EXCEPT ![t] = th[t]]
    /\ th' = [th EXCEPT ![t] = Idle]
    /\ UNCHANGED <<store, poisoned, storeLock, trace, traceLock, tyOf, valOf, rc,
                   held, asked, tracePoisoned>>

\* the registry that the callback running in thread t calls
Callee(t) == CallsInto(trace[TraceOf(outer[t].reg)], outer[t].reg)

\* the call of the callback has returned: its result is dropped and the
\* callback goes on to its end
CallbackResume(t) ==
    /\ outer[t] # Idle
    /\ th[t].pc = "ret"
    /\ IF th[t].res.kind = "Ok" THEN DropArcs({th[t].res.h})
                                ELSE UNCHANGED <<rc, tyOf, valOf>>
    /\ th' = [th EXCEPT ![t] = [outer[t] EXCEPT !.pc = "called"]]
    /\ outer' = [outer EXCEPT ![t] = Idle]
    /\ UNCHANGED <<store, poisoned, storeLock, trace, traceLock, held,
                   asked, tracePoisoned>>

\* ------------------------------------------------------------ register
\* register(value): Arc::new(value), then register_arc, which starts with
\* emit_event(Register)
Register(t, r, T, v) ==
    /\ th[t].pc = "idle"
    /\ Free # {}
    /\ traceLock[TraceOf(r)] = NoThread
    /\ tyOf' = [tyOf EXCEPT ![NewId] = T]
    /\ valOf' = [valOf EXCEPT ![NewId] = v]
    /\ rc' = [rc EXCEPT ![NewId] = 1]
    /\ traceLock' = EmitGuard(t, r)
    /\ th' = [th EXCEPT ![t] = [Idle EXCEPT !.pc = EmitPc(r, "reg_lock"),
                                  !.op = "register", !.reg = r, !.ty = T, !.arc = NewId]]
    /\ UNCHANGED <<store, poisoned, storeLock, trace, held,
                   asked, tracePoisoned, outer>>

\* register_arc(value): the caller moves one of its handles into the call,
\* which starts with emit_event(Register)
RegisterArc(t, r, h) ==
    /\ th[t].pc = "idle"
    /\ h \in held
    /\ traceLock[TraceOf(r)] = NoThread
    /\ held' = held \ {h}
    /\ traceLock' = EmitGuard(t, r)
    /\ th' = [th EXCEPT ![t] = [Idle EXCEPT !.pc = EmitPc(r, "reg_lock"),
                                  !.op = "register_arc", !.reg = r, !.ty = tyOf[h], !.arc = h]]
    /\ UNCHANGED <<store, poisoned, storeLock, trace, tyOf, valOf, rc,
                   asked, tracePoisoned, outer>>

\* register_arc: storage().lock().unwrap_or_else(into_inner).insert(TypeId, value)
\* a poisoned lock is recovered; the replaced Arc is the statement's value
RegisterInsert(t) ==
    LET r == StorageOf(th[t].reg)
        k == TypeIdOf(th[t].ty)
        old == Lookup(store[r], k)
    IN  /\ th[t].pc = "reg_lock"
        /\ storeLock[r] = NoThread
        /\ storeLock' = [storeLock EXCEPT ![r] = t]
        /\ store' = [store EXCEPT ![r] = Insert(store[r], k, th[t].arc)]
        /\ th' = [th EXCEPT ![t].pc = "reg_drop",
                            ![t].drops = IF old = NoArc THEN {} ELSE {old}]
        /\ UNCHANGED <<poisoned, trace, traceLock, tyOf, valOf, rc, held,
                   asked, tracePoisoned, outer>>

\* end of the insert statement: the replaced Arc is dropped, then the guard;
\* a destructor that panics unwinds through the guard and poisons the mutex
RegisterDropOld(t) ==
    LET r == StorageOf(th[t].reg)
        D == th[t].drops
        boom == \E i \in Dying(D) : DropPanics(tyOf[i])
    IN  /\ th[t].pc = "reg_drop"
        /\ DropArcs(D)
        /\ poisoned' = [poisoned EXCEPT ![r] = @ \/ boom]
        /\ storeLock' = [storeLock EXCEPT ![r] = NoThread]
        /\ th' = [th EXCEPT ![t].pc = "ret", ![t].drops = {},
                            ![t].res = IF boom THEN Panic ELSE Unit]
        /\ UNCHANGED <<store, trace, traceLock, held,
                   asked, tracePoisoned, outer>>

\* ------------------------------------------------------------ get / get_cloned
\* a get that keeps its guard until it returns
KeepMap(L, r) == L
\* drop(map): get releases STORAGE's guard before it builds the result
DropMap(L, r) == [L EXCEPT ![r] = NoThread]

\* get: storage().lock().map_err(|_| RegistryLock)?; map.get(&TypeId).cloned()
\* a poisoned lock is not recovered: the guard inside the error is dropped and
\* get returns Err(RegistryLock) without emitting an event
GetLock(t, r, T, op) ==
    LET s == StorageOf(r)
        a == Lookup(store[s], TypeIdOf(T))
        rec == [Idle EXCEPT !.op = op, !.reg = r, !.ty = T]
    IN  /\ th[t].pc = "idle"
        /\ storeLock[s] = NoThread
        /\ IF poisoned[s]
             THEN /\ th' = [th EXCEPT ![t] = [rec EXCEPT !.pc = "ret", !.res = RegistryLock]]
                  /\ UNCHANGED <<storeLock, rc>>
             ELSE /\ storeLock' = [storeLock EXCEPT ![s] = t]
                  /\ rc' = CloneArc(a)
                  /\ th' = [th EXCEPT ![t] = [rec EXCEPT !.pc = "get_unlock", !.arc = a]]
        /\ UNCHANGED <<store, poisoned, trace, traceLock, tyOf, valOf, held,
                   asked, tracePoisoned, outer>>

\* get::<T>()
Get(t, r, T) == GetLock(t, r, T, "get")

\* get_cloned::<T>(): let arc = self.get::<T>()?
GetCloned(t, r, T) == GetLock(t, r, T, "get_cloned")

\* the result get computes from any_arc_opt: downcast::<T>() or TypeNotFound
GetResult(a, T) ==
    IF a = NoArc THEN TypeNotFound(T)
    ELSE IF TypeIdOf(tyOf[a]) = TypeIdOf(T) THEN OkArc(a)
    ELSE TypeMismatch(T)

\* get: drop(map), then the match on any_arc_opt; a failed downcast drops the Arc
GetUnlock(t) ==
    LET r == StorageOf(th[t].reg)
        res == GetResult(th[t].arc, th[t].ty)
    IN  /\ th[t].pc = "get_unlock"
        /\ storeLock' = DropMap(storeLock, r)
        /\ IF res.kind = "TypeMismatch" THEN DropArcs({th[t].arc})
                                        ELSE UNCHANGED <<rc, tyOf, valOf>>
        /\ th' = [th EXCEPT ![t].pc = "emit", ![t].res = res]
        /\ UNCHANGED <<store, poisoned, trace, traceLock, held,
                   asked, tracePoisoned, outer>>

\* get_cloned: Ok((*arc).clone()); arc is dropped when get_cloned returns
GetClonedFinish(t) ==
    LET h == th[t].res.h
        ok == th[t].res.kind = "Ok"
        boom == ok /\ rc[h] = 1 /\ DropPanics(tyOf[h])
    IN  /\ th[t].pc = "cloned"
        /\ IF ok THEN DropArcs({h}) ELSE UNCHANGED <<rc, tyOf, valOf>>
        /\ th' = [th EXCEPT ![t].pc = "ret",
                            ![t].res = IF boom THEN Panic
                                       ELSE IF ok THEN OkVal(valOf[h]) ELSE @]
        /\ UNCHANGED <<store, poisoned, storeLock, trace, traceLock, held,
                   asked, tracePoisoned, outer>>

\* ------------------------------------------------------------ registry.rs
\* the module registry.rs keeps one map, GLOBAL_REGISTRY, and one callback,
\* TRACE_CALLBACK; its set_trace_callback, clear_trace_callback, emit_event,
\* register, register_arc, contains and clear take their locks as the ones of
\* RegistryApi do. Its get:
\*   let map = GLOBAL_REGISTRY.lock().map_err(..)?;
\*   let any_arc_opt = map.get(&TypeId::of::<T>()).cloned();
\*   let result = match any_arc_opt { .. };
\*   emit_event(..); result
\* has no drop(map): the guard `map` lives until the function returns
LegacyGet(t, r, T) ==
    LET s == StorageOf(r)
        a == Lookup(store[s], TypeIdOf(T))
        rec == [Idle EXCEPT !.op = "legacy_get", !.reg = r, !.ty = T]
    IN  /\ th[t].pc = "idle"
        /\ storeLock[s] = NoThread
        /\ IF poisoned[s]
             THEN /\ th' = [th EXCEPT ![t] = [rec EXCEPT !.pc = "ret", !.res = RegistryLock]]
                  /\ UNCHANGED <<storeLock, rc>>
             ELSE /\ storeLock' = [storeLock EXCEPT ![s] = t]
                  /\ rc' = IF GetResult(a, T).kind = "TypeMismatch" THEN rc ELSE CloneArc(a)
                  /\ th' = [th EXCEPT ![t] = [rec EXCEPT !.pc = "emit", !.arc = a,
                                                         !.res = GetResult(a, T)]]
        /\ UNCHANGED <<store, poisoned, trace, traceLock, tyOf, valOf, held,
                       asked, tracePoisoned, outer>>

\* the get of registry.rs returns: its locals go, the guard `map` among them
LegacyGetReturn(t) ==
    /\ th[t].pc = "legacy_unlock"
    /\ storeLock' = [storeLock EXCEPT ![StorageOf(th[t].reg)] = NoThread]
    /\ th' = [th EXCEPT ![t].pc = "ret"]
    /\ UNCHANGED <<store, poisoned, trace, traceLock, tyOf, valOf, rc, held,
                   asked, tracePoisoned, outer>>

\* ------------------------------------------------------------ contains
\* contains: storage().lock().map(|m| m.contains_key(..)).map_err(|_| RegistryLock)?
\* the guard is moved into the closure and dropped when the closure returns
Contains(t, r, T) ==
    LET s == StorageOf(r)
        rec == [Idle EXCEPT !.op = "contains", !.reg = r, !.ty = T]
    IN  /\ th[t].pc = "idle"
        /\ storeLock[s] = NoThread
        /\ th' = [th EXCEPT ![t] =
                    IF poisoned[s]
                      THEN [rec EXCEPT !.pc = "ret", !.res = RegistryLock]
                      ELSE [rec EXCEPT !.pc = "emit",
                                       !.res = OkBool(ContainsKey(store[s], TypeIdOf(T)))]]
        /\ UNCHANGED <<store, poisoned, storeLock, trace, traceLock, tyOf, valOf,
                       rc, held,
                   asked, tracePoisoned, outer>>

\* ------------------------------------------------------------ clear
\* clear: starts with emit_event(Clear)
Clear(t, r) ==
    /\ th[t].pc = "idle"
    /\ traceLock[TraceOf(r)] = NoThread
    /\ traceLock' = EmitGuard(t, r)
    /\ th' = [th EXCEPT ![t] = [Idle EXCEPT !.pc = EmitPc(r, "clr_lock"),
                                  !.op = "clear", !.reg = r]]
    /\ UNCHANGED <<store, poisoned, storeLock, trace, tyOf, valOf, rc, held,
                   asked, tracePoisoned, outer>>

\* a clear that also empties TRACE
ClearLockResetsTrace(t) ==
    LET r == StorageOf(th[t].reg)
    IN  /\ th[t].pc = "clr_lock"
        /\ storeLock[r] = NoThread
        /\ IF poisoned[r]
             THEN /\ th' = [th EXCEPT ![t].pc = "ret", ![t].res = Unit]
                  /\ UNCHANGED <<store, storeLock>>
             ELSE /\ storeLock' = [storeLock EXCEPT ![r] = t]
                  /\ store' = [store EXCEPT ![r] = {}]
                  /\ th' = [th EXCEPT ![t].pc = "clr_drop",
                                      ![t].drops = {e[2] : e \in store[r]}]
        /\ trace' = [trace EXCEPT ![th[t].reg] = "None"]
        /\ UNCHANGED <<poisoned, traceLock, tyOf, valOf, rc, held,
                       asked, tracePoisoned, outer>>

\* a clear that removes the entries of the map but one
AllButOne(m) == IF m = {} THEN {} ELSE m \ {CHOOSE e \in m : TRUE}
\* registry.clear(): HashMap::clear leaves the map with no entry
Emptied(m) == {}

\* clear: if let Ok(mut registry) = storage().lock() { registry.clear() }
\* on a poisoned lock nothing is done
ClearLock(t) ==
    LET r == StorageOf(th[t].reg)
    IN  /\ th[t].pc = "clr_lock"
        /\ storeLock[r] = NoThread
        /\ IF poisoned[r]
             THEN /\ th' = [th EXCEPT ![t].pc = "ret", ![t].res = Unit]
                  /\ UNCHANGED <<store, storeLock>>
             ELSE /\ storeLock' = [storeLock EXCEPT ![r] = t]
                  /\ store' = [store EXCEPT ![r] = Emptied(store[r])]
                  /\ th' = [th EXCEPT ![t].pc = "clr_drop",
                                      ![t].drops = {e[2] : e \in store[r]}]
        /\ UNCHANGED <<poisoned, trace, traceLock, tyOf, valOf, rc, held,
                   asked, tracePoisoned, outer>>

\* HashMap::clear drops the entries one by one under the guard; when a
\* destructor panics the entries not yet dropped are leaked, the map is left
\* empty and the unwinding guard poisons the mutex
ClearDrop(t) ==
    LET r == StorageOf(th[t].reg)
        D == th[t].drops
        bombs == {i \in Dying(D) : DropPanics(tyOf[i])}
    IN  /\ th[t].pc = "clr_drop"
        /\ storeLock' = [storeLock EXCEPT ![r] = NoThread]
        /\ IF bombs = {}
             THEN /\ DropArcs(D)
                  /\ th' = [th EXCEPT ![t].pc = "ret", ![t].drops = {}, ![t].res = Unit]
                  /\ UNCHANGED poisoned
             ELSE \E p \in bombs : \E B \in SUBSET (D \ bombs) :
                  /\ DropArcs(B \cup {p})
                  /\ th' = [th EXCEPT ![t].pc = "ret", ![t].drops = {}, ![t].res = Panic]
                  /\ poisoned' = [poisoned EXCEPT ![r] = TRUE]
        /\ UNCHANGED <<store, trace, traceLock, held,
                   asked, tracePoisoned, outer>>

\* ------------------------------------------------------------ callers
\* the call returns; the caller keeps the Arc<T> of an Ok result
ReturnKeep(t) ==
    /\ th[t].pc = "ret"
    /\ th[t].res.kind = "Ok"
    /\ th[t].res.h \notin held
    /\ held' = held \cup {th[t].res.h}
    /\ th' = [th EXCEPT ![t] = Idle]
    /\ UNCHANGED <<store, poisoned, storeLock, trace, traceLock, tyOf, valOf,
                   rc,
                   asked, tracePoisoned, outer>>

\* the call returns; an Arc<T> in the result is dropped by the caller
ReturnDrop(t) ==
    /\ th[t].pc = "ret"
    /\ IF th[t].res.kind = "Ok" THEN DropArcs({th[t].res.h})
                                ELSE UNCHANGED <<rc, tyOf, valOf>>
    /\ th' = [th EXCEPT ![t] = Idle]
    /\ UNCHANGED <<store, poisoned, storeLock, trace, traceLock, held,
                   asked, tracePoisoned, outer>>

\* a caller drops a handle it kept
DropHandle(h) ==
    /\ h \in held
    /\ held' = held \ {h}
    /\ DropArcs({h})
    /\ UNCHANGED <<store, poisoned, storeLock, trace, traceLock, th,
                   asked, tracePoisoned, outer>>

\* ------------------------------------------------------------ call history
\* last[r][T] is the outcome a lookup of T in r has by the calls that have
\* returned: NoArc (no entry) or an instance. It is Unsettled from the call of
\* a register of T or a clear of r until such a call returns normally without
\* having overlapped another one (solo). expect[t] is last of the type that
\* t's get / get_cloned / contains looks up, at the instant of the lookup.
Unsettled == 0 - 1
IsWrite(c) == c.op \in {"register", "register_arc", "clear"}
Writers(r, T) ==
    {t \in Threads : /\ th[t].pc # "idle"
                     /\ th[t].reg = r
                     /\ \/ th[t].op = "clear"
                        \/ th[t].op \in {"register", "register_arc"} /\ th[t].ty = T}
\* the calls in progress that the call c overlaps
Overlapped(c) ==
    IF c.op = "clear" THEN UNION {Writers(c.reg, T) : T \in Types}
                      ELSE Writers(c.reg, c.ty)

\* thread t starts the call c
Started(t, c) ==
    IF IsWrite(c)
      THEN /\ last' = [last EXCEPT ![c.reg] =
                          [T \in Types |-> IF c.op = "clear" \/ T = c.ty
                                             THEN Unsettled ELSE last[c.reg][T]]]
           /\ solo' = [u \in Threads |-> IF u = t THEN Overlapped(c) = {}
                                          ELSE IF u \in Overlapped(c) THEN FALSE
                                          ELSE solo[u]]
           /\ UNCHANGED expect
      ELSE /\ expect' = [expect EXCEPT ![t] = last[c.reg][c.ty]]
           /\ UNCHANGED <<last, solo>>

\* thread t's call c returns
Returned(t, c) ==
    /\ last' = IF IsWrite(c) /\ solo[t] /\ c.res.kind = "Unit"
                 THEN [last EXCEPT ![c.reg] =
                         [T \in Types |-> IF c.op = "clear" THEN NoArc
                                            ELSE IF T = c.ty THEN c.arc
                                            ELSE last[c.reg][T]]]
                 ELSE last
    /\ expect' = [expect EXCEPT ![t] = NoArc]
    /\ solo' = [solo EXCEPT ![t] = FALSE]

\* the events that the callback has got from each call in progress
Logged ==
    log' = [t \in Threads |->
              IF th'[t].pc = "idle" THEN <<>>
              ELSE IF th'[t].pc = "callback" /\ th[t].pc # "callback"
                THEN Append(log[t], EventOf(th'[t], trace[TraceOf(th'[t].reg)]))
              ELSE log[t]]

\* the history kept along a step of the threads
Track ==
  /\ Logged
  /\
    IF \E t \in Threads : th[t].pc = "idle" /\ th'[t].pc \notin {"idle", "aborted"}
      THEN LET t == CHOOSE u \in Threads : th[u].pc = "idle" /\ th'[u].pc \notin {"idle", "aborted"}
           IN  Started(t, th'[t])
    ELSE IF \E t \in Threads : th[t].pc = "ret" /\ th'[t].pc = "idle"
      THEN LET t == CHOOSE u \in Threads : th[u].pc = "ret" /\ th'[u].pc = "idle"
           IN  Returned(t, th[t])
    ELSE UNCHANGED <<last, expect, solo>>

\* ------------------------------------------------------------ specifications
\* the history along a step: kept (Track) or left alone
History(kept) == IF kept THEN Track ELSE UNCHANGED hist

\* the steps of thread t, its calls being on the registries RS
Step(t, RS, kept) ==
    \/ (\E r \in RS, cb \in Callbacks : SetTraceCallback(t, r, cb)) /\ History(kept)
    \/ (\E r \in RS : ClearTraceCallback(t, r)) /\ History(kept)
    \/ EmitEvent(t) /\ History(kept)
    \/ CallbackReturn(t) /\ History(kept)
    \/ (\E r \in RS, T \in Types :
          Free # {} /\ \E v \in ValsOf(T, NewId) : Register(t, r, T, v)) /\ History(kept)
    \/ (\E r \in RS, h \in Ids : RegisterArc(t, r, h)) /\ History(kept)
    \/ RegisterInsert(t) /\ History(kept)
    \/ RegisterDropOld(t) /\ History(kept)
    \/ (\E r \in RS, T \in Types : Get(t, r, T)) /\ History(kept)
    \/ (\E r \in RS, T \in Types : GetCloned(t, r, T)) /\ History(kept)
    \/ GetUnlock(t) /\ History(kept)
    \/ GetClonedFinish(t) /\ History(kept)
    \/ (\E r \in RS, T \in Types : Contains(t, r, T)) /\ History(kept)
    \/ (\E r \in RS : Clear(t, r)) /\ History(kept)
    \/ ClearLock(t) /\ History(kept)
    \/ ClearDrop(t) /\ History(kept)
    \/ ReturnKeep(t) /\ History(kept)
    \/ ReturnDrop(t) /\ History(kept)

\* a caller drops one of the handles it kept
Drop(kept) == (\E h \in Ids : DropHandle(h)) /\ History(kept)

\* two threads on one registry
Next == (\E t \in Threads : Step(t, {"A"}, FALSE)) \/ Drop(FALSE)
Spec == Init /\ [][Next]_vars

\* one thread on two registries
NextRegs == Step("t1", Regs, FALSE) \/ Drop(FALSE)
SpecRegs == Init /\ [][NextRegs]_vars

\* two threads on one registry, with the call history
NextHist == (\E t \in Threads : Step(t, {"A"}, TRUE)) \/ Drop(TRUE)
SpecHist == Init /\ [][NextHist]_vars

\* one thread on one registry, with the call history, a second callback and
\* a callback that panics
NextTrace ==
    \/ Step("t1", {"A"}, TRUE)
    \/ Drop(TRUE)
    \/ (\E cb \in MoreCallbacks : SetTraceCallback("t1", "A", cb)) /\ Track
    \/ CallbackPanic("t1") /\ Track
SpecTrace == Init /\ [][NextTrace]_vars

\* the events delivered are kept along a step, the rest of the history is not
Events == Logged /\ UNCHANGED <<last, expect, solo>>

\* thread t sets and clears the callbacks of two registries, cb for A and cb2
\* for B, and calls register, get, contains and clear on both
StepIso(t) ==
    \/ SetTraceCallback(t, "A", "cb") /\ Events
    \/ SetTraceCallback(t, "B", "cb2") /\ Events
    \/ (\E r \in Regs : ClearTraceCallback(t, r)) /\ Events
    \/ EmitEvent(t) /\ Events
    \/ CallbackReturn(t) /\ Events
    \/ (\E r \in Regs, T \in Types :
          Free # {} /\ \E v \in ValsOf(T, NewId) : Register(t, r, T, v)) /\ Events
    \/ RegisterInsert(t) /\ Events
    \/ RegisterDropOld(t) /\ Events
    \/ (\E r \in Regs, T \in Types : Get(t, r, T)) /\ Events
    \/ GetUnlock(t) /\ Events
    \/ (\E r \in Regs, T \in Types : Contains(t, r, T)) /\ Events
    \/ (\E r \in Regs : Clear(t, r)) /\ Events
    \/ ClearLock(t) /\ Events
    \/ ClearDrop(t) /\ Events
    \/ ReturnDrop(t) /\ Events

\* one thread on two registries, each with a callback of its own
NextIso == StepIso("t1")
SpecIso == Init /\ [][NextIso]_vars

\* the steps inside a call of thread t: once a call has started, the thread
\* that runs it keeps running it
Running(t) ==
    \/ EmitEvent(t)
    \/ CallbackReturn(t)
    \/ RegisterInsert(t)
    \/ RegisterDropOld(t)
    \/ GetUnlock(t)
    \/ GetClonedFinish(t)
    \/ ClearLock(t)
    \/ ClearDrop(t)

\* one thread on one registry; the thread goes on with a call it has started,
\* while nothing makes a caller start a call or drop a handle it keeps
NextWait == Step("t1", {"A"}, FALSE) \/ Drop(FALSE)
SpecWait == Init /\ [][NextWait]_vars /\ WF_vars(Running("t1") /\ UNCHANGED hist)

\* the steps of thread t while a call of its is under way, the calls that a
\* callback makes included: register of a u32, get and contains on the
\* registry the callback calls
Nested(t) ==
    \/ EmitEvent(t) /\ UNCHANGED hist
    \/ CallbackReturn(t) /\ UNCHANGED hist
    \/ RegisterInsert(t) /\ UNCHANGED hist
    \/ RegisterDropOld(t) /\ UNCHANGED hist
    \/ GetUnlock(t) /\ UNCHANGED hist
    \/ CallbackCall(t) /\ UNCHANGED hist
    \/ (outer[t] # Idle /\ Free # {}
          /\ \E v \in ValsOf("u32", NewId) : Register(t, Callee(t), "u32", v))
       /\ UNCHANGED hist
    \/ (outer[t] # Idle /\ \E T \in Types : Get(t, Callee(t), T)) /\ UNCHANGED hist
    \/ (outer[t] # Idle /\ \E T \in Types : Contains(t, Callee(t), T)) /\ UNCHANGED hist
    \/ CallbackResume(t) /\ UNCHANGED hist

\* the calls thread t makes from outside a callback: the callbacks CB are
\* installed on registry A, cb on registry B, and values of the types TS are
\* registered, looked up and asked for on both registries
Outside(t, TS, CB) ==
    \/ (outer[t] = Idle /\ \E cb \in CB : SetTraceCallback(t, "A", cb)) /\ UNCHANGED hist
    \/ (outer[t] = Idle /\ SetTraceCallback(t, "B", "cb")) /\ UNCHANGED hist
    \/ (outer[t] = Idle /\ Free # {}
          /\ \E r \in Regs, T \in TS : \E v \in ValsOf(T, NewId) : Register(t, r, T, v))
       /\ UNCHANGED hist
    \/ (outer[t] = Idle /\ \E r \in Regs, T \in TS : Get(t, r, T)) /\ UNCHANGED hist
    \/ (outer[t] = Idle /\ \E r \in Regs, T \in TS : Contains(t, r, T)) /\ UNCHANGED hist
    \/ (outer[t] = Idle /\ ReturnDrop(t)) /\ UNCHANGED hist

\* one thread; the callback of A calls registry B or registry A itself
NextReenter == Outside("t1", Types, CallingCallbacks) \/ Nested("t1")
SpecReenter == Init /\ [][NextReenter]_vars

\* two threads; the callback of A calls registry B, which has a callback of
\* its own. A thread goes on with the call it is in, and a thread that waits
\* for a lock that is released again and again gets it
NextCross == \E t \in Threads : Outside(t, {"u32"}, {"toB"}) \/ Nested(t)
SpecCross ==
    /\ Init /\ [][NextCross]_vars
    /\ \A t \in Threads : SF_vars(Nested(t))

\* the calls of thread t on the module registry.rs, whose map and callback
\* are the ones of registry A here: a callback that returns or one that
\* panics is installed, values are registered, looked up and asked for, and
\* the map is cleared
StepLegacy(t) ==
    \/ (\E cb \in Callbacks \cup {"boom"} : SetTraceCallback(t, "A", cb)) /\ UNCHANGED hist
    \/ ClearTraceCallback(t, "A") /\ UNCHANGED hist
    \/ EmitEvent(t) /\ UNCHANGED hist
    \/ CallbackReturn(t) /\ UNCHANGED hist
    \/ CallbackPanic(t) /\ UNCHANGED hist
    \/ (\E T \in Types :
          Free # {} /\ \E v \in ValsOf(T, NewId) : Register(t, "A", T, v)) /\ UNCHANGED hist
    \/ RegisterInsert(t) /\ UNCHANGED hist
    \/ RegisterDropOld(t) /\ UNCHANGED hist
    \/ (\E T \in Types : LegacyGet(t, "A", T)) /\ UNCHANGED hist
    \/ LegacyGetReturn(t) /\ UNCHANGED hist
    \/ (\E T \in Types : Contains(t, "A", T)) /\ UNCHANGED hist
    \/ Clear(t, "A") /\ UNCHANGED hist
    \/ ClearLock(t) /\ UNCHANGED hist
    \/ ClearDrop(t) /\ UNCHANGED hist
    \/ ReturnDrop(t) /\ UNCHANGED hist

\* two threads on the global registry of registry.rs
NextLegacy == \E t \in Threads : StepLegacy(t)
SpecLegacy == Init /\ [][NextLegacy]_vars

\* the steps of thread t inside a call it has started: emit_event with a
\* callback that returns, the store's critical sections, the end of the call
InsideCall(t) ==
    \/ EmitEvent(t) /\ UNCHANGED hist
    \/ CallbackReturn(t) /\ UNCHANGED hist
    \/ RegisterInsert(t) /\ UNCHANGED hist
    \/ RegisterDropOld(t) /\ UNCHANGED hist
    \/ GetUnlock(t) /\ UNCHANGED hist
    \/ GetClonedFinish(t) /\ UNCHANGED hist
    \/ ClearLock(t) /\ UNCHANGED hist
    \/ ClearDrop(t) /\ UNCHANGED hist

\* the calls thread t starts on the registries RS with values of the types
\* TS, and the drop of the result a call has returned; the callback cb calls
\* no registry and returns
Calls(t, RS, TS) ==
    \/ (\E r \in RS : SetTraceCallback(t, r, "cb")) /\ UNCHANGED hist
    \/ (\E r \in RS : ClearTraceCallback(t, r)) /\ UNCHANGED hist
    \/ (\E r \in RS, T \in TS :
          Free # {} /\ \E v \in ValsOf(T, NewId) : Register(t, r, T, v)) /\ UNCHANGED hist
    \/ (\E r \in RS, T \in TS : Get(t, r, T)) /\ UNCHANGED hist
    \/ (\E r \in RS, T \in TS : GetCloned(t, r, T)) /\ UNCHANGED hist
    \/ (\E r \in RS, T \in TS : Contains(t, r, T)) /\ UNCHANGED hist
    \/ (\E r \in RS : Clear(t, r)) /\ UNCHANGED hist
    \/ ReturnDrop(t) /\ UNCHANGED hist

\* two threads on two registries whose callbacks call no registry; the values
\* are u32, whose destructor does nothing. The
\* scheduling is fair: a thread goes on with the call it is in, and a thread
\* that waits for a lock that is released again and again gets it
NextLive == \E t \in Threads : Calls(t, Regs, {"u32"}) \/ InsideCall(t)
SpecLive ==
    /\ Init /\ [][NextLive]_vars
    /\ \A t \in Threads : SF_vars(InsideCall(t))

\* ------------------------------------------------------------ properties
\* the handles the callers keep are live, typed and carry their value
HandlesValid ==
    \A h \in held : rc[h] >= 1 /\ tyOf[h] \in Types /\ valOf[h] \in ValsOf(tyOf[h], h)

\* C1 (uniqueness): a get::<T>() made when the calls that have returned leave
\* the instance v as the value most recently registered for T since the last
\* clear returns a handle to v
C1_GetReturnsLatest ==
    \A t \in Threads :
        (th[t].pc = "ret" /\ th[t].op = "get" /\ expect[t] \in Ids)
            => th[t].res = OkArc(expect[t])

\* C2 (one entry per type, atomic replace): in every state each store holds at
\* most one entry per TypeId, and the only step that takes a key out of a
\* map is clear's: a register of a key that has an entry never leaves the
\* slot empty
OneEntryPerType ==
    \A r \in Regs : \A e1, e2 \in store[r] : e1[1] = e2[1] => e1 = e2
SlotEmptiedOnlyByClear ==
    \A r \in Regs, T \in Types :
        (ContainsKey(store[r], TypeIdOf(T)) /\ ~ContainsKey(store'[r], TypeIdOf(T)))
            => \E t \in Threads : /\ th[t].op = "clear"
                                  /\ th[t].pc = "clr_lock"
                                  /\ th'[t].pc = "clr_drop"
C2_OneEntryAtomicReplace == []OneEntryPerType /\ [][SlotEmptiedOnlyByClear]_vars
\* a register is replacing the entry of its key
C2_Witness ==
    \E t \in Threads :
        /\ th[t].pc = "reg_drop"
        /\ th[t].drops # {}
        /\ Lookup(store[th[t].reg], TypeIdOf(th[t].ty)) = th[t].arc

\* C3 (reference survival): a handle a caller keeps stays live with its value,
\* and a get::<T>() made after the entry behind a kept handle was replaced
\* returns the new instance, which is not the kept one
C3_ReferenceSurvival ==
    /\ HandlesValid
    /\ \A t \in Threads, h \in held :
          (/\ th[t].pc = "ret" /\ th[t].op = "get"
           /\ expect[t] \in Ids /\ tyOf[h] = th[t].ty /\ h # expect[t])
            => (th[t].res.kind = "Ok" /\ th[t].res.h = expect[t] /\ th[t].res.h # h)

\* C4 (miss behaviour): with no entry for T, get::<T>() and get_cloned::<T>()
\* return Err(TypeNotFound) with T's name and contains::<T>() returns Ok(false)
C4_MissBehaviour ==
    \A t \in Threads :
        (/\ th[t].pc = "ret"
         /\ th[t].op \in {"get", "get_cloned", "contains"}
         /\ expect[t] = NoArc)
            => th[t].res = IF th[t].op = "contains" THEN OkBool(FALSE)
                                                   ELSE TypeNotFound(th[t].ty)

\* C5 (store isolation): a step changes the map, the lock and the poison flag
\* of no registry but the one the call is on, and a get / contains returns
\* what the map of its own registry gives
OwnResult(c) ==
    IF c.op = "contains" THEN OkBool(ContainsKey(store[c.reg], TypeIdOf(c.ty)))
                         ELSE GetResult(Lookup(store[c.reg], TypeIdOf(c.ty)), c.ty)
OtherStoresUnchanged ==
    \A r \in Regs :
        (store'[r] # store[r] \/ storeLock'[r] # storeLock[r] \/ poisoned'[r] # poisoned[r])
            => \E t \in Threads : th'[t].reg = r
OwnStoreRead ==
    (/\ th["t1"].pc = "ret"
     /\ th["t1"].op \in {"get", "contains"}
     /\ th["t1"].res.kind # "RegistryLock")
        => th["t1"].res = OwnResult(th["t1"])
C5_StoreIsolation == []OwnStoreRead /\ [][OtherStoresUnchanged]_vars
\* both registries hold an entry for the type and a get on B returns B's
C5_Witness ==
    /\ th["t1"].pc = "ret" /\ th["t1"].op = "get" /\ th["t1"].reg = "B"
    /\ th["t1"].res.kind = "Ok"
    /\ ContainsKey(store["A"], TypeIdOf(th["t1"].ty))
    /\ Lookup(store["A"], TypeIdOf(th["t1"].ty)) # th["t1"].res.h

\* C6 (clear): when a clear that overlapped no register and no other clear
\* has returned, the map is empty, and the handles handed out stay valid
C6_ClearRemovesAll ==
    /\ \A t \in Threads :
          (th[t].pc = "ret" /\ th[t].op = "clear" /\ solo[t] /\ th[t].res = Unit)
            => store[th[t].reg] = {}
    /\ HandlesValid

\* C7 (concurrent register / get of u32): no register::<u32> or get::<u32>
\* panics, and the handle of a successful get::<u32> is a live u32 instance
\* carrying the value it was registered with
C7_ConcurrentRegisterGet ==
    \A t \in Threads :
        (th[t].ty = "u32" /\ th[t].op \in {"register", "get"})
            => /\ th[t].res.kind # "Panic"
               /\ (th[t].op = "get" /\ th[t].res.kind = "Ok")
                    => /\ rc[th[t].res.h] >= 1
                       /\ tyOf[th[t].res.h] = "u32"
                       /\ valOf[th[t].res.h] \in ValsOf("u32", th[t].res.h)
\* a get::<u32> has returned the instance that a concurrent register::<u32>
\* is replacing
C7_Witness ==
    \E t, u \in Threads :
        /\ th[t].op = "register" /\ th[t].ty = "u32" /\ th[t].pc = "reg_drop"
        /\ th[u].op = "get" /\ th[u].res.kind = "Ok"
        /\ th[u].res.h \in th[t].drops

\* C8 (linearizability): a get / contains of T that starts when the calls
\* that have returned leave T's entry settled (no register of T and no clear
\* is in progress) returns what that entry gives
C8_Linearizable ==
    \A t \in Threads :
        (th[t].pc = "ret" /\ th[t].op \in {"get", "contains"} /\ expect[t] # Unsettled)
            => th[t].res = IF th[t].op = "contains" THEN OkBool(expect[t] # NoArc)
                           ELSE IF expect[t] = NoArc THEN TypeNotFound(th[t].ty)
                           ELSE OkArc(expect[t])

\* C9 (callback outside the store lock): a thread that runs the trace callback
\* holds no store lock
C9_NoStoreLockInCallback ==
    \A t \in Threads : th[t].pc = "callback" => \A r \in Regs : storeLock[r] # t
\* the callback of a get runs while another thread holds the store lock
C9_Witness ==
    \E t, u \in Threads :
        /\ t # u
        /\ th[t].pc = "callback" /\ th[t].op = "get"
        /\ storeLock[th[t].reg] = u

\* C10 (Register event after the mutation): while the callback runs for the
\* registration of v under T, the store maps T to v and the registering
\* thread holds no store lock
C10_RegisterEventAfterInsert ==
    \A t \in Threads :
        (th[t].pc = "callback" /\ th[t].op \in {"register", "register_arc"})
            => /\ Lookup(store[th[t].reg], TypeIdOf(th[t].ty)) = th[t].arc
               /\ storeLock[th[t].reg] # t

\* the calls that emit an event
Operations == {"register", "register_arc", "get", "get_cloned", "contains", "clear"}
\* thread t is in a call
InCall(t) == th[t].op # "-"
\* thread t's call has returned to its caller (normally or by a panic)
AtReturn(t) == th[t].pc = "ret"

\* C11 (tracing completeness): with a callback installed, a call of register,
\* register_arc, get, get_cloned, contains or clear has delivered exactly one
\* event, of its own kind, when it returns
C11_OneEventPerOperation ==
    \A t \in Threads :
        (AtReturn(t) /\ th[t].op \in Operations /\ asked[th[t].reg] # "None")
            => /\ Len(log[t]) = 1
               /\ log[t][1].kind = EventOf(th[t], "-").kind

\* C12 (events reflect outcomes): the event of a get carries T's name and
\* found = (the get returned Ok), the event of a contains carries the boolean
\* it returned, and a get of a type that has no entry has delivered one Get
\* event with found = false
C12_EventsReflectOutcomes ==
    \A t \in Threads :
        (AtReturn(t) /\ th[t].op \in {"get", "contains"} /\ th[t].res.kind # "Panic")
            => /\ \A i \in 1..Len(log[t]) :
                     /\ log[t][i].type_name = TypeName(th[t].ty)
                     /\ log[t][i].found = IF th[t].op = "get" THEN th[t].res.kind = "Ok"
                                                              ELSE th[t].res.b
               /\ (/\ th[t].op = "get"
                   /\ asked[th[t].reg] # "None"
                   /\ ~ContainsKey(store[th[t].reg], TypeIdOf(th[t].ty)))
                    => (Len(log[t]) = 1 /\ log[t][1].kind = "Get" /\ ~log[t][1].found)

\* C13 (a panicking callback): the panic reaches the caller and leaves the
\* store as it was: map, store lock and its poison flag are unchanged by the
\* step; every entry of the map is a live instance of its key's type; and a
\* get / contains returns RegistryLock only on a store lock that is poisoned
CallbackPanicKeepsStore ==
    \A t \in Threads :
        (th[t].pc = "callback" /\ CallbackPanics(trace[th[t].reg]) /\ th'[t] # th[t])
            => /\ th'[t].res.kind \in {"Panic", "Abort"}
               /\ UNCHANGED <<store, poisoned, storeLock>>
EntriesRegistered ==
    \A r \in Regs : \A e \in store[r] :
        e[2] \in Ids /\ rc[e[2]] >= 1 /\ TypeIdOf(tyOf[e[2]]) = e[1]
LockErrorOnlyIfPoisoned ==
    \A t \in Threads : th[t].res.kind = "RegistryLock" => poisoned[th[t].reg]
C13_CallbackPanicPropagates ==
    [](EntriesRegistered /\ LockErrorOnlyIfPoisoned) /\ [][CallbackPanicKeepsStore]_vars
\* after a callback has panicked, a later get returns Ok
C13_Witness ==
    /\ tracePoisoned["A"] /\ ~poisoned["A"]
    /\ AtReturn("t1") /\ th["t1"].op = "get" /\ th["t1"].res.kind = "Ok"

\* C14 (poison recovery on reads): get, get_cloned and contains never return
\* RegistryLock
C14_ReadsRecoverPoison ==
    \A t \in Threads :
        (AtReturn(t) /\ th[t].op \in {"get", "get_cloned", "contains"})
            => th[t].res.kind # "RegistryLock"

\* C15 (clear never fails): a clear returns normally, and the map is empty
\* when a clear that overlapped no register and no other clear returns
C15_ClearNeverFails ==
    \A t \in Threads :
        (AtReturn(t) /\ th[t].op = "clear")
            => /\ th[t].res = Unit
               /\ solo[t] => store[th[t].reg] = {}

\* C16 (register cannot fail): a register / register_arc returns normally,
\* and the map holds its value under T's key when one that overlapped no
\* other register of T and no clear returns
C16_RegisterCannotFail ==
    \A t \in Threads :
        (AtReturn(t) /\ th[t].op \in {"register", "register_arc"})
            => /\ th[t].res = Unit
               /\ solo[t] => Lookup(store[th[t].reg], TypeIdOf(th[t].ty)) = th[t].arc

\* C17 (no wait for handles): a register, register_arc or clear that has been
\* called comes to its end, in every behaviour, those included where the
\* handles that callers keep are never dropped
C17_NoWaitForHandles ==
    (th["t1"].op \in {"register", "register_arc", "clear"}) ~> AtReturn("t1")
\* a register has replaced the entry of its type and returned, while a caller
\* still keeps its handle to the replaced instance
C17_Witness ==
    /\ AtReturn("t1")
    /\ th["t1"].op \in {"register", "register_arc"}
    /\ th["t1"].res = Unit
    /\ \E h \in held :
          /\ tyOf[h] = th["t1"].ty
          /\ h # th["t1"].arc
          /\ rc[h] = 1
          /\ Lookup(store["A"], TypeIdOf(th["t1"].ty)) = th["t1"].arc

\* C18 (sole observer): the events of a call go to the callback that the
\* last set_trace_callback to return has installed, and to no other
C18_SoleObserver ==
    \A t \in Threads :
        InCall(t)
            => /\ \A i \in 1..Len(log[t]) : log[t][i].to = asked[th[t].reg]
               /\ th[t].pc = "callback" => trace[th[t].reg] = asked[th[t].reg]
\* an event goes to cb2, installed in place of the callback that panicked
C18_Witness ==
    /\ tracePoisoned["A"] /\ asked["A"] = "cb2"
    /\ th["t1"].pc = "callback" /\ log["t1"][1].to = "cb2"

\* C19 (no events after clear_trace_callback): while no callback is installed
\* since the last clear_trace_callback, a call invokes no callback and
\* delivers no event, and it goes on to its result
C19_NoEventsAfterClearTrace ==
    \A t \in Threads :
        (InCall(t) /\ asked[th[t].reg] = "None")
            => (log[t] = <<>> /\ th[t].pc # "callback")
\* after a callback had been called (and panicked) and was cleared, a get
\* returns Ok without an event
C19_Witness ==
    /\ tracePoisoned["A"] /\ asked["A"] = "None"
    /\ AtReturn("t1") /\ th["t1"].op = "get" /\ th["t1"].res.kind = "Ok"
    /\ log["t1"] = <<>>

\* C20 (store and trace hub are independent): a step of a clear leaves the
\* installed callback as it is, no step changes the map and the callback
\* together, and a step that changes the callback leaves the store, its lock
\* and the registered values as they are
TraceStoreIndependent ==
    /\ (\E t \in Threads : th[t].op = "clear" \/ th'[t].op = "clear")
          => trace' = trace
    /\ store' # store => trace' = trace
    /\ trace' # trace
          => UNCHANGED <<store, poisoned, storeLock, rc, tyOf, valOf, held>>
C20_TraceStoreIndependent == [][TraceStoreIndependent]_vars
\* a clear has emptied a map that held an entry, and the callback that got
\* its Clear event is still installed
C20_Witness ==
    /\ th["t1"].op = "clear" /\ th["t1"].pc = "clr_drop" /\ th["t1"].drops # {}
    /\ Len(log["t1"]) = 1 /\ trace["A"] = log["t1"][1].to

\* the handles to instances that the call c has in its locals
LocalHandles(c) ==
    CASE c.pc \in {"reg_drop", "clr_drop"} -> c.drops
      [] c.pc \in {"callback", "reg_lock"} /\ c.op \in {"register", "register_arc"}
            -> {c.arc}
      [] c.pc = "get_unlock" -> {c.arc} \ {NoArc}
      [] OTHER -> IF c.res.kind = "Ok" THEN {c.res.h} ELSE {}
\* the handles to instance i: the map slots, the callers' and the calls' locals
Refs(i) ==
    Cardinality({r \in Regs : \E e \in store[r] : e[2] = i})
      + (IF i \in held THEN 1 ELSE 0)
      + Cardinality({t \in Threads : i \in LocalHandles(th[t])})

\* what get::<T>() followed by a copy of the value gives on the map of the
\* call's registry
ClonedResult(c) ==
    LET g == GetResult(Lookup(store[c.reg], TypeIdOf(c.ty)), c.ty)
    IN  IF g.kind = "Ok" THEN OkVal(valOf[g.h]) ELSE g

\* C24 (get_cloned is get followed by a copy): a get_cloned::<T>() that
\* returns has the result of a get::<T>() with the value in place of the
\* handle, has delivered exactly one Get event when a callback is installed,
\* and hands out no handle: the copy is no reference to the stored instance,
\* whose count is the one of the map slot and the handles that were out before
C24_GetClonedIsGetPlusCopy ==
    \A t \in Threads :
        (AtReturn(t) /\ th[t].op = "get_cloned" /\ th[t].res.kind # "Panic")
            => /\ IF poisoned[th[t].reg] THEN th[t].res = RegistryLock
                                         ELSE th[t].res = ClonedResult(th[t])
               /\ asked[th[t].reg] # "None"
                    => (Len(log[t]) = 1 /\ log[t][1].kind = "Get")
               /\ th[t].res.h = NoArc
               /\ \A i \in Ids : rc[i] = Refs(i)

\* C25 (register_arc is register): a register and a register_arc that return
\* normally leave the same: the map holds, under T's key, the very instance
\* the call was given, and one Register event with T's name has been
\* delivered when a callback is installed; no step of a register_arc adds a
\* reference to the instance it was given
RegisteredAtReturn ==
    \A t \in Threads :
        (AtReturn(t) /\ th[t].op \in {"register", "register_arc"} /\ th[t].res = Unit)
            => /\ Lookup(store[th[t].reg], TypeIdOf(th[t].ty)) = th[t].arc
               /\ tyOf[th[t].arc] = th[t].ty
               /\ asked[th[t].reg] # "None"
                    => /\ Len(log[t]) = 1
                       /\ log[t][1].kind = "Register"
                       /\ log[t][1].type_name = TypeName(th[t].ty)
NoCountAdded ==
    \A t \in Threads :
        th[t].op = "register_arc" => rc'[th[t].arc] <= rc[th[t].arc]
C25_RegisterArcIsRegister == []RegisteredAtReturn /\ [][NoCountAdded]_vars
\* a register_arc has returned: the map holds the instance given, the store's
\* handle is the only one to it, and one event has been delivered
C25_Witness ==
    /\ AtReturn("t1") /\ th["t1"].op = "register_arc" /\ th["t1"].res = Unit
    /\ <<TypeIdOf(th["t1"].ty), th["t1"].arc>> \in store["A"]
    /\ rc[th["t1"].arc] = 1
    /\ Len(log["t1"]) = 1

\* C28 (idempotent clear): a clear that has returned leaves the map empty or
\* its lock poisoned; and from a state where the map is empty or its lock
\* poisoned, every step of a clear, from the call to the return, leaves the
\* map, the poison flag and the installed callback as they are and ends in a
\* normal return: a second clear in a row changes nothing, and a clear of an
\* empty store succeeds and leaves it empty
Cleared(r) == store[r] = {} \/ poisoned[r]
AfterClear ==
    \A t \in Threads : (AtReturn(t) /\ th[t].op = "clear")
                          => (Cleared(th[t].reg) /\ th[t].drops = {})
StableUnderClear ==
    \A t \in Threads :
        LET c == IF th[t].op = "clear" THEN th[t] ELSE th'[t]
        IN  (c.op = "clear" /\ Cleared(c.reg) /\ th[t].drops = {})
              => /\ UNCHANGED <<store, poisoned, trace>>
                 /\ th'[t].drops = {}
                 /\ (th[t].pc # "ret" /\ th'[t].pc = "ret") => th'[t].res = Unit
C28_IdempotentClear == []AfterClear /\ [][StableUnderClear]_vars
\* a clear has locked a map that had no entry, after entries had been
\* registered and removed
C28_Witness ==
    /\ th["t1"].op = "clear" /\ th["t1"].pc = "clr_drop" /\ th["t1"].drops = {}
    /\ ~poisoned["A"] /\ store["A"] = {}
    /\ held # {}

\* C21 (tracing isolation): every event of a call on a registry goes to the
\* callback that was last asked for on that registry (to none when none was),
\* and a step that is no set_ / clear_trace_callback on a registry leaves the
\* callback of that registry as it is
EventsToOwnCallback ==
    \A t \in Threads :
        InCall(t)
            => /\ \A i \in 1..Len(log[t]) : log[t][i].to = asked[th[t].reg]
               /\ asked[th[t].reg] = "None" => th[t].pc # "callback"
OtherCallbackUnchanged ==
    \A q \in Regs : asked'[q] = asked[q] => trace'[q] = trace[q]
C21_TracingIsolation == []EventsToOwnCallback /\ [][OtherCallbackUnchanged]_vars
\* with cb installed on A and cb2 on B, a register on B has delivered its
\* event to cb2
C21_Witness ==
    /\ trace["A"] = "cb" /\ trace["B"] = "cb2"
    /\ AtReturn("t1") /\ th["t1"].op = "register" /\ th["t1"].reg = "B"
    /\ Len(log["t1"]) = 1 /\ log["t1"][1].to = "cb2"

\* thread t is making the call of a callback that calls another registry than
\* the one it is installed on
CallsOther(t) == outer[t] # Idle /\ Callee(t) # outer[t].reg
\* the call of thread t that is not made by a callback has returned
Completed(t) == outer[t] = Idle /\ AtReturn(t)

CallsOwn(t) ==
    \/ /\ outer[t] = Idle /\ th[t].pc = "callback"
       /\ CallsInto(trace[TraceOf(th[t].reg)], th[t].reg) = th[t].reg
    \/ outer[t] # Idle /\ Callee(t) = outer[t].reg
\* C23 (a callback that calls its own registry deadlocks): from the moment
\* the callback that calls its own registry is invoked, the thread stays in
\* it: the call the callback makes never returns, and the call that invoked
\* the callback never goes on
StaysInCallback ==
    \A t \in Threads : CallsOwn(t) => (CallsOwn(t)' /\ th'[t].pc # "ret")
C23_SameRegistryCallbackDeadlocks == [][StaysInCallback]_vars

\* C26 (TypeMismatch is unreachable): the entry under the type identity of T
\* is an instance of T, and no get / get_cloned has TypeMismatch as its result
C26_TypeMismatchUnreachable ==
    /\ \A r \in Regs, T \in Types :
          LET a == Lookup(store[r], TypeIdOf(T))
          IN  a # NoArc => tyOf[a] = T
    /\ \A t \in Threads : th[t].res.kind # "TypeMismatch"
\* a get::<T>() has returned Ok from a map that holds entries of both types
C26_Witness ==
    \E t \in Threads :
        /\ AtReturn(t) /\ th[t].op = "get" /\ th[t].res.kind = "Ok"
        /\ tyOf[th[t].res.h] = th[t].ty
        /\ \A T \in Types : ContainsKey(store[th[t].reg], TypeIdOf(T))

\* C27 (shared ownership): the strong count of an instance is the number of
\* map slots that hold it plus the number of handles outside the map, and the
\* instance exists exactly while that count is not zero
C27_SharedOwnership ==
    \A i \in Ids : /\ rc[i] = Refs(i)
                   /\ (rc[i] = 0) <=> (tyOf[i] = "-")

\* C29 (no destructor in the critical section): no store lock is ever
\* poisoned, and the step in which the last handle to an instance goes is
\* made by no thread that holds a store lock
NoDropUnderLock ==
    \A i \in Ids :
        (rc[i] = 1 /\ rc'[i] = 0) => \A r \in Regs : storeLock[r] = storeLock'[r]
C29_NoDestructorUnderLock ==
    [](\A r \in Regs : ~poisoned[r]) /\ [][NoDropUnderLock]_vars

\* C30 (Clear event after the mutation): while the callback runs for a clear
\* that overlapped no register, the map is empty
C30_ClearEventAfterClear ==
    \A t \in Threads :
        (th[t].pc = "callback" /\ th[t].op = "clear"
           /\ \A u \in Threads \ {t} : th[u].op \notin {"register", "register_arc"})
            => store[th[t].reg] = {}

\* thread t holds both locks of registry r: STORAGE's and TRACE's
HoldsBoth(t, r) == storeLock[StorageOf(r)] = t /\ traceLock[TraceOf(r)] = t

MapStepAtomic ==
    \A r \in Regs :
        store'[r] # store[r]
            => \E t \in Threads :
                 /\ th[t].reg = r /\ storeLock[r] = NoThread /\ storeLock'[r] = t
                 /\ \/ /\ th[t].op = "clear" /\ th[t].pc = "clr_lock"
                       /\ store'[r] = {}
                       /\ th'[t].drops = {e[2] : e \in store[r]}
                    \/ /\ th[t].op \in {"register", "register_arc"}
                       /\ th[t].pc = "reg_lock"
                       /\ store'[r] = {e \in store[r] : e[1] # TypeIdOf(th[t].ty)}
                                        \cup {<<TypeIdOf(th[t].ty), th[t].arc>>}
\* until the call lets go of the lock the map stays as the call left it
MapHeldAsLeft ==
    \A t \in Threads :
        /\ th[t].pc = "clr_drop" => (storeLock[th[t].reg] = t /\ store[th[t].reg] = {})
        /\ th[t].pc = "reg_drop"
              => /\ storeLock[th[t].reg] = t
                 /\ <<TypeIdOf(th[t].ty), th[t].arc>> \in store[th[t].reg]

\* C31 (insert-or-replace and remove-all are atomic): every change of a map is
\* one whole clear (no entry is left) or one whole insert-or-replace, made in
\* one step under the store lock, and the map stays so until the lock is
\* released: the map a run ends with is the one the calls give in the order
\* in which they took the lock
C31_AtomicMapOps == []MapHeldAsLeft /\ [][MapStepAtomic]_vars
\* a clear has removed the entries while a register of the other thread waits
\* for the lock, after a register that replaced an entry
C31_Witness ==
    \E t, u \in Threads :
        /\ th[t].op = "clear" /\ th[t].pc = "clr_drop" /\ th[t].drops # {}
        /\ th[u].op = "register" /\ th[u].pc = "reg_lock" /\ th[u].reg = th[t].reg

\* the threads that are inside an invocation of the callback of registry r
Invoking(r) ==
    {t \in Threads : \/ th[t].pc \in {"callback", "called"} /\ TraceOf(th[t].reg) = TraceOf(r)
                     \/ outer[t] # Idle /\ TraceOf(outer[t].reg) = TraceOf(r)}
\* the invocations of one registry's callback exclude each other: the thread
\* that runs the callback holds the trace lock
CallbacksSerialized ==
    \A r \in Regs : \A t \in Invoking(r) :
        traceLock[TraceOf(r)] = t /\ Invoking(r) = {t}
\* a step that changes the installed callback, or what was last asked for, is
\* taken while no invocation is in progress
NoChangeWhileInvoking ==
    \A r \in Regs :
        (trace'[TraceOf(r)] # trace[TraceOf(r)] \/ asked'[r] # asked[r])
            => (Invoking(r) = {} /\ traceLock[TraceOf(r)] = NoThread)

\* C34 (callback invocations are serialized): at most one thread at a time
\* runs the callback of a registry, and no set_trace_callback or
\* clear_trace_callback takes effect while an invocation is in progress
C34_CallbacksSerialized == []CallbacksSerialized /\ [][NoChangeWhileInvoking]_vars
\* one thread runs the callback while the other has come to emit_event on
\* the same registry and waits for the trace lock
C34_Witness ==
    \E t, u \in Threads :
        /\ th[t].pc = "callback" /\ th[u].pc = "emit"
        /\ TraceOf(th[t].reg) = TraceOf(th[u].reg)

\* thread t goes through the lock of emit_event in this step
PassesEmit(t) ==
    \/ th[t].pc = "emit" /\ th'[t].pc # "emit"
    \/ th[t].pc = "idle" /\ th'[t].op \in {"register", "register_arc", "clear"}
\* the panic of a callback leaves it installed
PanicKeepsInstalled ==
    \A r \in Regs :
        (tracePoisoned'[r] /\ ~tracePoisoned[r])
            => (trace'[r] = trace[r] /\ trace[r] # "None")
\* behind a poisoned trace lock the callback last asked for is invoked
DeliveredThoughPoisoned ==
    \A t \in Threads :
        (PassesEmit(t) /\ tracePoisoned[TraceOf(th'[t].reg)])
            => IF asked[th'[t].reg] = "None"
                 THEN th'[t].pc # "callback"
                 ELSE th'[t].pc = "callback" /\ traceLock'[TraceOf(th'[t].reg)] = t
\* a call fails only by a panic of the callback it invokes, by a panic of a
\* destructor, or by a poisoned store lock
FailsOnlyByPanicOrStore ==
    \A t \in Threads :
        /\ (th'[t].res.kind \in {"Panic", "Abort"} /\ th[t].res.kind \notin {"Panic", "Abort"})
              => \/ th[t].pc = "callback" /\ CallbackPanics(trace[TraceOf(th[t].reg)])
                 \/ th[t].pc \in {"reg_drop", "clr_drop", "cloned"}
        /\ th'[t].res.kind = "RegistryLock" => poisoned[StorageOf(th'[t].reg)]

\* C35 (trace-hub poison recovery): the panic of a callback leaves that
\* callback installed; with the trace lock poisoned, set_trace_callback and
\* clear_trace_callback still decide which callback is installed, every later
\* emit_event invokes the installed one, and no call fails but by a panic of
\* the callback or of a destructor, or by a poisoned store lock
C35_TracePoisonRecovery ==
    /\ [](\A r \in Regs : trace[TraceOf(r)] = asked[r])
    /\ [][PanicKeepsInstalled /\ DeliveredThoughPoisoned /\ FailsOnlyByPanicOrStore]_vars
\* after its panic has poisoned the trace lock, the callback is invoked again
\* for the event of a later get
C35_Witness ==
    /\ tracePoisoned["A"] /\ trace["A"] = "boom"
    /\ th["t1"].pc = "callback" /\ th["t1"].op = "get"

\* the map of the registry of call c has an entry under the type identity of
\* the type c asks for
Present(c) == \E e \in store[StorageOf(c.reg)] : e[1] = TypeIdOf(c.ty)
\* the step in which a contains or a get reads the map, whose lock is not
\* poisoned, gives Ok(true) / Ok(handle of the entry) when the map has an
\* entry for the type, and Ok(false) / Err(TypeNotFound) when it has none
ReadsAgree ==
    \A t \in Threads :
        /\ (/\ th[t].pc = "idle" /\ th'[t].op = "contains"
            /\ ~poisoned[StorageOf(th'[t].reg)])
              => th'[t].res = OkBool(Present(th'[t]))
        /\ (/\ th[t].pc = "idle" /\ th'[t].op \in {"get", "get_cloned"}
            /\ ~poisoned[StorageOf(th'[t].reg)])
              => th'[t].pc = "get_unlock"
        /\ (th[t].pc = "get_unlock" /\ th'[t].pc # "get_unlock")
              => IF Present(th[t])
                   THEN /\ th'[t].res.kind = "Ok"
                        /\ <<TypeIdOf(th[t].ty), th'[t].res.h>> \in store[StorageOf(th[t].reg)]
                   ELSE th'[t].res = TypeNotFound(th[t].ty)

\* C36 (contains and get agree): on a map whose lock is not poisoned,
\* contains::<T>() returns Ok(true) exactly when a get::<T>() on the same map
\* returns Ok, and Ok(false) exactly when that get returns TypeNotFound
C36_ContainsAgreesWithGet == [][ReadsAgree]_vars
\* on one map a contains and a get of the same type have returned Ok(true)
\* and Ok, with the entry they found still in the map
C36_Witness ==
    \E t, u \in Threads :
        /\ AtReturn(t) /\ th[t].op = "contains" /\ th[t].res = OkBool(TRUE)
        /\ AtReturn(u) /\ th[u].op = "get" /\ th[u].res.kind = "Ok"
        /\ th[t].ty = th[u].ty /\ th[t].reg = th[u].reg
        /\ <<TypeIdOf(th[u].ty), th[u].res.h>> \in store[th[u].reg]

\* the handles to instances of type T that earlier get calls on registry r
\* have handed out: the ones the callers keep and the results of the gets
\* that have read the map
HandedOut(r, T) ==
    {h \in held : tyOf[h] = T}
      \cup {th[u].res.h : u \in {v \in Threads : /\ th[v].op = "get" /\ th[v].reg = r
                                                 /\ th[v].ty = T /\ th[v].res.kind = "Ok"}}
\* the get that gives its result gives the very instance of every handle
\* handed out before whose instance is still the entry of the type, and
\* counts one more handle to it
SameInstance ==
    \A t \in Threads :
        (th[t].op = "get" /\ th[t].pc = "get_unlock" /\ th'[t].pc = "emit")
            => \A h \in HandedOut(th[t].reg, th[t].ty) :
                   <<TypeIdOf(th[t].ty), h>> \in store[StorageOf(th[t].reg)]
                      => /\ th'[t].res = OkArc(h)
                         /\ rc[h] >= 3
                         /\ valOf'[h] = valOf[h] /\ tyOf'[h] = th[t].ty

\* C37 (single shared instance): a get::<T>() returns a handle to the same
\* instance as every earlier get::<T>() on the registry since which the entry
\* of T is the same: the handles are counted references to one instance, not
\* copies of it
C37_SingleSharedInstance == [][SameInstance]_vars
\* a get has returned the instance that the caller holds from an earlier get
\* and that is still registered
C37_Witness ==
    \E t \in Threads :
        /\ AtReturn(t) /\ th[t].op = "get" /\ th[t].res.kind = "Ok"
        /\ th[t].res.h \in held
        /\ <<TypeIdOf(th[t].ty), th[t].res.h>> \in store[th[t].reg]

\* what a get::<U>() on registry r gives in the state at hand
GetOutcome(r, U) ==
    IF poisoned[StorageOf(r)] THEN RegistryLock
    ELSE GetResult(Lookup(store[StorageOf(r)], TypeIdOf(U)), U)
\* a step of a register::<T> / register_arc::<T> leaves, for every other type
\* U, the entry of U and the instance under it as they are
OtherSlotsKept ==
    \A t \in Threads :
        (th[t].op \in {"register", "register_arc"} /\ th'[t] # th[t])
            => \A U \in Types \ {th[t].ty} :
                 LET a == Lookup(store[StorageOf(th[t].reg)], TypeIdOf(U))
                 IN  /\ Lookup(store'[StorageOf(th[t].reg)], TypeIdOf(U)) = a
                     /\ a # NoArc => (rc'[a] >= 1 /\ valOf'[a] = valOf[a] /\ tyOf'[a] = U)
\* and what a get::<U>() gives is the same before and after the step
OthersRetrievable ==
    \A t \in Threads :
        (th[t].op \in {"register", "register_arc"} /\ th'[t] # th[t])
            => \A r \in Regs, U \in Types :
                 (r = th[t].reg /\ U # th[t].ty)
                    => GetOutcome(r, U)' = GetOutcome(r, U)

\* C38 (register changes only the slot of T): every step of a register::<T> /
\* register_arc::<T> leaves the entry and the instance of every other type U
\* of the registry as they are, and U as retrievable as it was
C38_RegisterChangesOnlySlot == [][OtherSlotsKept /\ OthersRetrievable]_vars

\* a step of a get, a get_cloned or a contains, from the call to the return
\* and the drop of its result, leaves every map, its lock's poison flag and
\* every installed callback as they are, and the instances in the maps alive
\* and unchanged
ReadsChangeNothing ==
    \A t \in Threads :
        LET c == IF th[t].op = "-" THEN th'[t] ELSE th[t]
        IN  (c.op \in {"get", "get_cloned", "contains"} /\ th'[t] # th[t])
              => /\ UNCHANGED <<store, poisoned, trace, asked>>
                 /\ \A r \in Regs : \A e \in store[r] :
                       /\ rc'[e[2]] >= 1
                       /\ tyOf'[e[2]] = tyOf[e[2]]
                       /\ valOf'[e[2]] = valOf[e[2]]

\* C39 (reads are read-only): no step of a get, get_cloned or contains,
\* whether the call succeeds, fails or its callback panics, changes the set of
\* registered types, the instance stored under a type or the installed
\* callback
C39_ReadsAreReadOnly == [][ReadsChangeNothing]_vars
\* a get_cloned has returned a copy while entries of both types are
\* registered and a callback is installed
C39_Witness ==
    /\ AtReturn("t1") /\ th["t1"].op = "get_cloned" /\ th["t1"].res.kind = "OkVal"
    /\ \A T \in Types : ContainsKey(store["A"], TypeIdOf(T))
    /\ trace["A"] # "None"

\* C40 (registry.rs: the callback runs outside the registry lock): a thread
\* that runs the trace callback for a call of get, contains, register_arc or
\* clear of registry.rs does not hold the lock of GLOBAL_REGISTRY
C40_LegacyCallbackOutsideLock ==
    \A t \in Threads :
        th[t].pc = "callback" => storeLock[StorageOf(th[t].reg)] # t

\* a thread that is in no call, or whose call has come to its return, holds
\* no lock
NoLockOutsideCall ==
    \A t \in Threads :
        th[t].pc \in {"idle", "ret"}
            => \A r \in Regs : storeLock[r] # t /\ traceLock[r] # t

\* C33 (deadlock freedom): with callbacks that return and call no registry,
\* and destructors that call no registry, under fair scheduling every call
\* that a thread has started comes to its return, and a thread outside a call
\* holds no lock: every lock a call waits for is released in the end, for
\* set_trace_callback and clear_trace_callback as well
C33_DeadlockFreedom ==
    /\ []NoLockOutsideCall
    /\ InCall("t1") ~> AtReturn("t1")
    /\ InCall("t2") ~> AtReturn("t2")
\* one thread removes the entries of A under A's store lock while the other
\* waits for that lock to register, and B has a callback installed
C33_Witness ==
    \E t, u \in Threads :
        /\ th[t].pc = "clr_drop" /\ th[t].reg = "A" /\ th[t].drops # {}
        /\ th[u].pc = "reg_lock" /\ th[u].reg = "A"
        /\ trace["B"] = "cb"

====
